---- MODULE Spec2Model ----
(***************************************************************************)
(* TClient: a libtorrent session orchestrator (src/TClient.py).            *)
(*                                                                         *)
(* Three threads share the state: the main thread (command surface and     *)
(* TorrentClient.shutdown), the RSSManager.run thread (feed polling) and   *)
(* the TorrentClient._alert_loop thread (alert dispatch).  The libtorrent  *)
(* session is the environment: it answers async_add_torrent and            *)
(* save_resume_data with alerts, at times of its own choosing.             *)
(***************************************************************************)
EXTENDS Integers, Sequences, FiniteSets, TLC

\* ------------------------------------------------------------------ bounds

\* SIGINT/SIGTERM deliveries considered in one run of the process.
MaxSignals == 1
\* remove_feed is tried with every index in -1 .. MaxIndex.
MaxIndex == 2
\* The counters kept for the properties saturate here.
MaxCount == 2
\* alerts of the kinds the loop only reports that the session posts in a run
MaxOther == 1
\* `config set` commands given in one run
MaxCalls == 2

\* ------------------------------------------------------------ feed universe

Urls == {"u1", "u2"}

\* add_feed's regex_filter: ".*" (the default) and "1080p".
Filters == {".*", "1080p"}

BT == "application/x-bittorrent"

\* hrefs: the scheme is what startswith('magnet:') reads, id what is left.
MagA == [scheme |-> "magnet", id |-> "A"]
\* a magnet URI without an info-hash: lt.parse_magnet_uri raises on it
MagBad == [scheme |-> "magnet", id |-> ""]
\* a .torrent served over http
TorB == [scheme |-> "http", id |-> "B"]
Page == [scheme |-> "http", id |-> "page"]

Hrefs == {MagA, MagBad, TorB, Page}

\* What feedparser.parse(url) returns, when it returns: the same entries on
\* every poll.  u1 and u2 carry the same magnet link.
Doc(url) ==
    IF url = "u1"
    THEN << [title |-> <<"Movie", "1080P", "WEB">>,
             links |-> << [href |-> Page, type |-> "text/html"],
                          [href |-> MagA, type |-> ""],
                          [href |-> TorB, type |-> BT] >>],
            [title |-> <<"Show", "720p">>,
             links |-> << [href |-> TorB, type |-> BT] >>] >>
    ELSE << [title |-> <<"Movie", "1080p", "WEB">>,
             links |-> << [href |-> MagA, type |-> ""] >>],
            [title |-> <<"Other", "1080p">>,
             links |-> << [href |-> MagBad, type |-> ""] >>] >>

\* str.lower on the words the titles and patterns are made of.
Lower(w) == IF w = "1080P" THEN "1080p" ELSE w

\* re.search(filter, title, re.IGNORECASE): ".*" is found in every title, a
\* literal word where the title holds it in either case.
ReSearch(filter, title) ==
    \/ filter = ".*"
    \/ \E i \in 1..Len(title) : Lower(title[i]) = Lower(filter)

\* link.get('type') == 'application/x-bittorrent' or
\* link.href.startswith('magnet:')
IsTransferLink(link) == link.type = BT \/ link.href.scheme = "magnet"

\* os.path.exists(uri): none of the hrefs a feed carries names a local file.
PathExists(uri) == uri.scheme = "file"

\* TorrentClient.add_torrent(uri): "submitted" when it reaches
\* session.async_add_torrent, "invalid" when it prints "Invalid torrent
\* source." and returns, "raise" when lt.parse_magnet_uri throws.
add_torrent(uri) ==
    IF uri.scheme = "magnet"
    THEN (IF uri.id = "" THEN "raise" ELSE "submitted")
    ELSE IF PathExists(uri) THEN "submitted" ELSE "invalid"

\* The links of one matching entry that RSSManager.run hands to add_torrent:
\* the scan stops (break) at the first transfer link, submitted or not.
RECURSIVE ScanLinksNoBreak(_, _)
ScanLinksNoBreak(links, hist) ==
    IF links = <<>> THEN <<>>
    ELSE (IF IsTransferLink(Head(links)) /\ Head(links).href \notin hist
          THEN <<Head(links).href>> ELSE <<>>)
         \o ScanLinksNoBreak(Tail(links), hist)

RECURSIVE ScanLinksNoHistory(_, _)
ScanLinksNoHistory(links, hist) ==
    IF links = <<>> THEN <<>>
    ELSE IF IsTransferLink(Head(links))
         THEN <<Head(links).href>>
         ELSE ScanLinksNoHistory(Tail(links), hist)

RECURSIVE ScanLinks(_, _)
ScanLinks(links, hist) ==
    IF links = <<>> THEN <<>>
    ELSE IF IsTransferLink(Head(links))
         THEN (IF Head(links).href \notin hist
               THEN <<Head(links).href>> ELSE <<>>)
         ELSE ScanLinks(Tail(links), hist)

\* ------------------------------------------------------------ feed state file

FeedDefs == [url : Urls, filter : Filters]

\* rss.json: absent, empty (opened with 'w' and not yet written) or written.
NoFile == [state |-> "absent", feeds |-> <<>>, history |-> {}]
EmptyFile == [state |-> "empty", feeds |-> <<>>, history |-> {}]
Written(f, h) == [state |-> "ok", feeds |-> f, history |-> h]

\* RSSManager._load_state: a missing or undecodable file leaves the empty
\* feed list and history of __init__.
load_state(file) ==
    IF file.state = "ok"
    THEN [feeds |-> file.feeds, history |-> file.history]
    ELSE [feeds |-> <<>>, history |-> {}]

\* The rss.json files a run may start from.
InitialFiles ==
    { NoFile,
      Written(<< [url |-> "u1", filter |-> ".*"] >>, {}),
      Written(<< [url |-> "u2", filter |-> "1080p"] >>, {MagA}) }

Range(s) == { s[i] : i \in 1..Len(s) }

\* list.pop(index) for 0 <= index < len
Pop(s, index) == SubSeq(s, 1, index) \o SubSeq(s, index + 2, Len(s))

Inc(n) == IF n < MaxCount THEN n + 1 ELSE MaxCount

\* ----------------------------------------------------- settings and config

\* A Python str is a sequence of symbols: a character, or a run of characters
\* that no operation here looks into (a mode name, an address, a unit).
Digits == <<"0", "1", "2", "3", "4", "5", "6", "7", "8", "9">>
IsDigit(c) == \E d \in 1..10 : Digits[d] = c
DigitValue(c) == (CHOOSE d \in 1..10 : Digits[d] = c) - 1

RECURSIVE DigitsValue(_)
DigitsValue(ds) ==
    IF ds = <<>> THEN 0
    ELSE 10 * DigitsValue(SubSeq(ds, 1, Len(ds) - 1)) + DigitValue(ds[Len(ds)])

\* int(value) for a str without blanks: an optional sign and decimal digits,
\* ValueError otherwise.
ParseInt(value) ==
    LET signed == value # <<>> /\ Head(value) \in {"-", "+"}
        body == IF signed THEN Tail(value) ELSE value
    IN  IF body = <<>> \/ \E i \in 1..Len(body) : ~IsDigit(body[i])
        THEN [ok |-> FALSE, val |-> 0]
        ELSE [ok |-> TRUE,
              val |-> IF signed /\ Head(value) = "-" THEN 0 - DigitsValue(body)
                      ELSE DigitsValue(body)]

\* str(n) for an int
RECURSIVE NatStr(_)
NatStr(n) ==
    IF n < 10 THEN <<Digits[n + 1]>>
    ELSE NatStr(n \div 10) \o <<Digits[(n % 10) + 1]>>

IntStr(n) == IF n < 0 THEN <<"-">> \o NatStr(0 - n) ELSE NatStr(n)

Abs(n) == IF n < 0 THEN 0 - n ELSE n

\* the decimal digits of r / d for 0 <= r < d and d a power of two
RECURSIVE FracDigits(_, _)
FracDigits(r, d) ==
    IF r = 0 THEN <<>>
    ELSE <<Digits[((10 * r) \div d) + 1]>> \o FracDigits((10 * r) % d, d)

\* f"{val / d}": the repr of the float val / d, which is exact here
FloatStr(val, d) ==
    LET q == Abs(val) \div d
        r == Abs(val) % d
    IN  (IF val < 0 THEN <<"-">> ELSE <<>>) \o NatStr(q) \o <<".">>
        \o (IF r = 0 THEN <<"0">> ELSE FracDigits(r, d))

\* f"{val / d:.1f}": one digit after the point, rounded half to even
FixedStr(val, d) ==
    LET n == 10 * Abs(val)
        t0 == n \div d
        rem == n % d
        t == IF 2 * rem > d \/ (2 * rem = d /\ t0 % 2 = 1) THEN t0 + 1 ELSE t0
    IN  (IF val < 0 THEN <<"-">> ELSE <<>>) \o NatStr(t \div 10) \o <<".">>
        \o <<Digits[(t % 10) + 1]>>

\* TorrentClient.CONFIG_MAP: name -> (lt_setting_key, type)
CONFIG_MAP ==
    [k \in {"cache_size_mb", "dl_limit_kb", "ul_limit_kb", "connections_limit",
            "listen_port", "encryption"} |->
        CASE k = "cache_size_mb" -> [lt_key |-> "cache_size", v_type |-> "int"]
          [] k = "dl_limit_kb" ->
                [lt_key |-> "download_rate_limit", v_type |-> "int"]
          [] k = "ul_limit_kb" ->
                [lt_key |-> "upload_rate_limit", v_type |-> "int"]
          [] k = "connections_limit" ->
                [lt_key |-> "connections_limit", v_type |-> "int"]
          [] k = "listen_port" ->
                [lt_key |-> "listen_interfaces", v_type |-> "str"]
          [] k = "encryption" -> [lt_key |-> "pe_in_mode", v_type |-> "str"]]

\* key.endswith('_kb')
EndsWithKb(key) == key \in {"dl_limit_kb", "ul_limit_kb"}

\* emap of config_set
emap == [n \in {"enable", "force", "disable"} |->
            CASE n = "enable" -> 1 [] n = "force" -> 2 [] n = "disable" -> 0]

\* emap.get(value, 1)
EmapGet(value) ==
    IF Len(value) = 1 /\ value[1] \in DOMAIN emap THEN emap[value[1]] ELSE 1

\* dict.update, and d[k] = v
Update(d, e) ==
    [k \in DOMAIN d \cup DOMAIN e |-> IF k \in DOMAIN e THEN e[k] ELSE d[k]]
Put(d, k, v) == [x \in DOMAIN d \cup {k} |-> IF x = k THEN v ELSE d[x]]

TranslateKilo(key, value) ==
    LET v_type == CONFIG_MAP[key].v_type
        parsed == IF v_type = "int" THEN ParseInt(value)
                  ELSE [ok |-> TRUE, val |-> value]
    IN  IF ~parsed.ok THEN [ok |-> FALSE, val |-> 0]
        ELSE [ok |-> TRUE,
              val |-> IF key = "cache_size_mb" THEN parsed.val * 64
                      ELSE IF EndsWithKb(key) THEN parsed.val * 1000
                      ELSE IF key = "encryption" THEN EmapGet(value)
                      ELSE parsed.val]

\* final_value of config_set for a key of CONFIG_MAP, or the ValueError of
\* int(value)
Translate(key, value) ==
    LET v_type == CONFIG_MAP[key].v_type
        parsed == IF v_type = "int" THEN ParseInt(value)
                  ELSE [ok |-> TRUE, val |-> value]
    IN  IF ~parsed.ok THEN [ok |-> FALSE, val |-> 0]
        ELSE [ok |-> TRUE,
              val |-> IF key = "cache_size_mb" THEN parsed.val * 64
                      ELSE IF EndsWithKb(key) THEN parsed.val * 1024
                      ELSE IF key = "encryption" THEN EmapGet(value)
                      ELSE parsed.val]

\* TorrentClient.config_set on the settings mapping `st` and the settings
\* `live` that the session was given: what they are afterwards, what was
\* printed and the names written to the mapping.
config_set(st, live, key, value) ==
    IF key \notin DOMAIN CONFIG_MAP
    THEN [settings |-> st, live |-> live, result |-> "unknown", wrote |-> {}]
    ELSE LET lt_key == CONFIG_MAP[key].lt_key
             final == Translate(key, value)
         IN  IF ~final.ok
             THEN [settings |-> st, live |-> live, result |-> "invalid",
                   wrote |-> {}]
             ELSE LET st1 == IF key = "encryption"
                             THEN Put(st, "pe_out_mode", final.val)
                             ELSE st
                  IN  [settings |-> Put(st1, lt_key, final.val),
                       live |-> Put(live, lt_key, final.val),
                       result |-> "set",
                       wrote |-> IF key = "encryption"
                                 THEN {"pe_out_mode", lt_key}
                                 ELSE {lt_key}]

\* the dict of config_show's encryption branch, with .get(val, 'N/A')
EncName(val) ==
    CASE val = 1 -> <<"enable">>
      [] val = 2 -> <<"force">>
      [] val = 0 -> <<"disable">>
      [] OTHER -> <<"N/A">>

\* The Value column of config_show for `key`, from what get_settings()
\* returns.  `live` holds the settings the program has applied; a name that
\* is not in it is shown as the 'N/A' of .get(lt_key, 'N/A').
Render(key, live) ==
    LET lt_key == CONFIG_MAP[key].lt_key IN
    IF lt_key \notin DOMAIN live THEN <<"N/A">>
    ELSE LET val == live[lt_key] IN
         IF key = "cache_size_mb" THEN FixedStr(val, 64) \o <<" MB">>
         ELSE IF EndsWithKb(key) THEN FloatStr(val, 1024) \o <<" KB/s">>
         ELSE IF key = "encryption" THEN EncName(val)
         ELSE IF CONFIG_MAP[key].v_type = "int" THEN IntStr(val)
         ELSE val

\* session.dat: absent, not bencoded, or the state an earlier run saved; an
\* undecodable part of a saved state makes session.load_state raise.
NoSettings == [k \in {} |-> TRUE]
AbsentSession == [state |-> "absent", settings |-> NoSettings, loads |-> FALSE]
GarbageSession ==
    [state |-> "garbage", settings |-> NoSettings, loads |-> FALSE]
SavedSession(st, loads) == [state |-> "ok", settings |-> st, loads |-> loads]

\* the settings of the except branch of _load_state_and_config
DefaultSettings ==
    [k \in {"listen_interfaces", "enable_dht", "enable_upnp", "enable_natpmp",
            "alert_mask"} |->
        CASE k = "listen_interfaces" -> <<"0.0.0.0:6881, [::]:6881">>
          [] k = "alert_mask" -> "all_categories"
          [] OTHER -> TRUE]

BaseSettings == [k \in {"user_agent"} |-> "TClient/Pro (libtorrent/2.0)"]

load_state_and_configNoDefaults(file) ==
    IF file.state # "ok"
    THEN BaseSettings
    ELSE Update(BaseSettings, file.settings)

\* TorrentClient._load_state_and_config: self.settings afterwards.  open()
\* raises for an absent file, state.get for what bdecode makes of garbage,
\* load_state for a state it cannot read, and `except Exception` puts the
\* defaults over whatever the try block had stored by then.
load_state_and_config(file) ==
    IF file.state # "ok"
    THEN Update(BaseSettings, DefaultSettings)
    ELSE LET loaded == Update(BaseSettings, file.settings)
         IN  IF file.loads THEN loaded ELSE Update(loaded, DefaultSettings)

\* The session.dat files a run may start from.
SessionFiles ==
    { AbsentSession,
      GarbageSession,
      SavedSession(Put(Put(DefaultSettings, "listen_interfaces",
                           <<"0.0.0.0:7000">>),
                       "download_rate_limit", 2048), TRUE),
      SavedSession(Put(Put(DefaultSettings, "listen_interfaces", <<>>),
                       "enable_dht", FALSE), FALSE) }

\* The keys and values `config set` is tried with.
ConfigKeys == DOMAIN CONFIG_MAP \cup {"dht"}
RawValues ==
    { <<"5", "0", "0">>, <<"8">>, <<"-", "1">>, <<"1", ".", "5">>,
      <<"a", "b", "c">>, <<"enable">>, <<"force">>, <<"disable">>,
      <<"0.0.0.0:7000">> }

\* ------------------------------------------------------------------- state

VARIABLES
    \* RSSManager
    feeds,          \* self.feeds: sequence of [url, filter]
    history,        \* self.history: set of hrefs
    rssFile,        \* RSS_STATE_FILE
    rss_shutdown,   \* RSSManager.shutdown_event
    \* the RSSManager.run thread
    rssPc,          \* "idle" (not started), "while", "for", "fetch", "entry",
                    \* "submit", "record", "save_open", "save_write", "wait",
                    \* "done"
    rssIdx,         \* the index the iterator of `for feed_info in self.feeds` holds
    rssCur,         \* feed_info
    rssEntry,       \* position in feed.entries
    rssTodo,        \* hrefs of the current entry still to hand to add_torrent
    rssSnap,        \* what the thread's _save_state read between open and write
    \* the main thread
    mainPc,         \* "init", "prompt", "save_write", "rejected", "sd_*",
                    \* "exited"
    mainSnap,       \* what the main thread's _save_state read
    \* what the feed properties observe
    jobsByLink,     \* href -> async_add_torrent calls made for it by the feed loop
    feedRecorded,   \* hrefs the feed loop added to the history
    passStable,     \* feed definitions in the list since the pass began
    passCount,      \* feed definition -> times the pass took it from the list
    curJobs,        \* jobs submitted for feed_info since the loop took it
    entryTries,     \* add_torrent calls made for the current entry
    rssFailed,      \* "no", or the stage ("fetch", "entry") whose exception
                    \* the except clause caught for feed_info
    \* libtorrent session
    pendingAdds,    \* jobs given to async_add_torrent and not yet answered
    torrents,       \* jobs the session holds
    meta,           \* jobs whose handle has_metadata()
    pendingResume,  \* job -> save_resume_data calls not yet answered
    alertQueue,     \* alerts posted and not yet popped
    \* TorrentClient
    shutdown_event, \* TorrentClient.shutdown_event
    handles,        \* self.handles
    resumeFiles,    \* RESUME_DATA_DIR: job -> blob, for the files there are
    sessionSaves,   \* times SESSION_STATE_FILE was written
    \* the _alert_loop thread
    alertPc,        \* "idle" (not started), "while", "wait", "process",
                    \* "done", "crashed" (ended by an exception)
    alertBatch,     \* what pop_alerts() returned and is not yet handled
    \* the main thread in shutdown
    sdIdx,          \* the index the iterator of `for h in self.handles` holds
    inHandler,      \* the running shutdown() was called by signal_handler
    inFinally,      \* main()'s finally clause has been entered
    signals,        \* signals delivered so far
    \* what the shutdown properties observe
    reqCount,       \* job -> save_resume_data calls made
    termRequested,  \* a termination request has been made
    metaAtTerm,     \* registered jobs with metadata at the first request
    completions,    \* times "Shutdown complete." was printed
    inTime,         \* resume alerts posted before the wait of shutdown ended
    handled,        \* resume alerts whose file was written
    writeFailed,    \* a resume file write has thrown
    \* what the alert loop properties observe
    autoManaged,    \* jobs whose handle was given the auto_managed flag
    logged,         \* the log: kind of line -> lines written by _alert_loop
    addsOk,         \* add_torrent_alerts without error handled so far
    addsFailed,     \* add_torrent_alerts with an error handled so far
    otherCount,     \* alerts of the other kinds posted so far
    popped,         \* what the last pop_alerts() returned
    handledSeq,     \* the alerts of `popped` the loop body has run for
    wakesAfterStop, \* returns of wait_for_alert with shutdown_event set
    \* settings
    settings,       \* self.settings
    engineSettings, \* the settings given to the session with apply_settings
    sessionFile,    \* SESSION_STATE_FILE
    \* what the config properties observe
    lastCall,       \* the last config command, what it printed and the names
                    \* it wrote to self.settings
    shown,          \* the Value column of the last `config show`
    cfgCalls        \* `config set` commands given so far

NoFeed == [url |-> "", filter |-> ""]
NoSnap == [feeds |-> <<>>, history |-> {}]

rssVars == <<rssPc, rssIdx, rssCur, rssEntry, rssTodo, rssSnap>>
feedData == <<feeds, history, rssFile>>
feedGhost == <<jobsByLink, feedRecorded, passStable, passCount, curJobs,
               entryTries, rssFailed>>
mainVars == <<mainPc, mainSnap>>
engineVars == <<torrents, meta, pendingResume, alertQueue>>
alertVars == <<alertPc, alertBatch>>
sdVars == <<sdIdx, inHandler, inFinally, signals>>
sdGhost == <<reqCount, termRequested, metaAtTerm, completions, inTime,
             handled, writeFailed>>
\* what the feed loop and the feed commands never touch
alertGhost == <<autoManaged, logged, addsOk, addsFailed, otherCount, popped,
                handledSeq, wakesAfterStop>>
cfgVars == <<settings, engineSettings, lastCall, shown, cfgCalls>>
clientVars == <<engineVars, shutdown_event, handles, resumeFiles, sessionSaves,
                alertVars, sdVars, sdGhost, alertGhost, cfgVars, sessionFile>>

NoCall == [op |-> "none", key |-> "", raw |-> <<>>, result |-> "",
           wrote |-> {}]
NoTable == [k \in DOMAIN CONFIG_MAP |-> <<>>]
vars == <<feedData, rss_shutdown, rssVars, mainVars, feedGhost, pendingAdds,
          clientVars>>

\* Jobs: A is what the magnet link of the feeds adds, R a job of an earlier
\* run, whose resume file start() loads.
Jobs == {"A", "R"}
ResumedJobs == {"R"}

\* The lines _alert_loop can write to the log: the info line of an added
\* torrent, the debug line of a torrent_log_alert, and a line for an
\* add_torrent_alert with an error (no statement of the loop writes one).
LogKinds == {"added", "add_failed", "debug"}

\* RSSManager.__init__ and TorrentClient.__init__: the state is what
\* _load_state reads from the file the run starts from.
InitWith(file, resumed, sfile) ==
        /\ settings = load_state_and_config(sfile)
        /\ engineSettings = settings
        /\ sessionFile = sfile
        /\ lastCall = NoCall
        /\ shown = NoTable
        /\ cfgCalls = 0
        /\ torrents = {}
        /\ meta = {}
        /\ pendingResume = [j \in Jobs |-> 0]
        /\ alertQueue = <<>>
        /\ shutdown_event = FALSE
        /\ handles = <<>>
        /\ resumeFiles = [j \in resumed |-> 0]
        /\ sessionSaves = 0
        /\ alertPc = "idle"
        /\ alertBatch = <<>>
        /\ sdIdx = 0
        /\ inHandler = FALSE
        /\ inFinally = FALSE
        /\ signals = 0
        /\ reqCount = [j \in Jobs |-> 0]
        /\ termRequested = FALSE
        /\ metaAtTerm = {}
        /\ completions = 0
        /\ inTime = {}
        /\ handled = {}
        /\ writeFailed = FALSE
        /\ autoManaged = {}
        /\ logged = [k \in LogKinds |-> 0]
        /\ addsOk = 0
        /\ addsFailed = 0
        /\ otherCount = 0
        /\ popped = <<>>
        /\ handledSeq = <<>>
        /\ wakesAfterStop = 0
        /\ rssFile = file
        /\ feeds = load_state(file).feeds
        /\ history = load_state(file).history
        /\ rss_shutdown = FALSE
        /\ rssPc = "idle"
        /\ rssIdx = 0
        /\ rssCur = NoFeed
        /\ rssEntry = 0
        /\ rssTodo = <<>>
        /\ rssSnap = NoSnap
        /\ mainPc = "init"
        /\ mainSnap = NoSnap
        /\ jobsByLink = [h \in Hrefs |-> 0]
        /\ feedRecorded = {}
        /\ passStable = {}
        /\ passCount = [f \in FeedDefs |-> 0]
        /\ curJobs = 0
        /\ entryTries = 0
        /\ rssFailed = "no"
        /\ pendingAdds = {}

Init ==
    \E file \in InitialFiles, resumed \in SUBSET ResumedJobs :
        InitWith(file, resumed, AbsentSession)

\* ------------------------------------------------- the RSSManager.run thread

\* `while not self.shutdown_event.is_set()`, and the iterator of the for loop.
RssWhile ==
    /\ rssPc = "while"
    /\ IF rss_shutdown
       THEN /\ rssPc' = "done"
            /\ UNCHANGED <<rssIdx, passStable, passCount>>
       ELSE /\ rssPc' = "for"
            /\ rssIdx' = 0
            /\ passStable' = Range(feeds)
            /\ passCount' = [f \in FeedDefs |-> 0]
    /\ curJobs' = 0
    /\ rssFailed' = "no"
    /\ UNCHANGED <<feedData, rss_shutdown, rssCur, rssEntry, rssTodo, rssSnap,
                   mainVars, jobsByLink, feedRecorded, entryTries, pendingAdds>>
    /\ UNCHANGED clientVars

\* One step of `for feed_info in self.feeds`: the list iterator reads the
\* live list at its index.
RssFor ==
    /\ rssPc = "for"
    /\ IF rssIdx < Len(feeds)
       THEN /\ rssCur' = feeds[rssIdx + 1]
            /\ rssIdx' = rssIdx + 1
            /\ rssPc' = "fetch"
            /\ passCount' = [passCount EXCEPT ![feeds[rssIdx + 1]] = Inc(@)]
       ELSE /\ rssPc' = "wait"
            /\ rssCur' = NoFeed
            /\ UNCHANGED <<rssIdx, passCount>>
    /\ curJobs' = 0
    /\ rssFailed' = "no"
    /\ UNCHANGED <<feedData, rss_shutdown, rssEntry, rssTodo, rssSnap, mainVars,
                   jobsByLink, feedRecorded, passStable, entryTries,
                   pendingAdds>>
    /\ UNCHANGED clientVars

\* The except clause of the loop body: log, and go on with the for loop.
RssExceptFails(stage) ==
    /\ rssPc' = "done"
    /\ rssFailed' = stage
    /\ rssTodo' = <<>>

RssExcept(stage) ==
    /\ rssPc' = "for"
    /\ rssFailed' = stage
    /\ rssTodo' = <<>>

\* feedparser.parse(feed_info['url']): the fetch succeeds or throws.
RssFetch ==
    /\ rssPc = "fetch"
    /\ \/ /\ rssPc' = "entry"
          /\ rssEntry' = 1
          /\ UNCHANGED <<rssFailed, rssTodo>>
       \/ /\ RssExcept("fetch")
          /\ UNCHANGED rssEntry
    /\ UNCHANGED <<feedData, rss_shutdown, rssIdx, rssCur, rssSnap, mainVars,
                   jobsByLink, feedRecorded, passStable, passCount, curJobs,
                   entryTries, pendingAdds>>
    /\ UNCHANGED clientVars

\* One step of `for entry in feed.entries`: the title test and the link scan.
RssEntry ==
    /\ rssPc = "entry"
    /\ LET doc == Doc(rssCur.url) IN
       IF rssEntry > Len(doc)
       THEN /\ rssPc' = "for"
            /\ UNCHANGED <<rssEntry, rssTodo>>
       ELSE LET todo == IF ReSearch(rssCur.filter, doc[rssEntry].title)
                        THEN ScanLinks(doc[rssEntry].links, history)
                        ELSE <<>>
            IN  /\ rssTodo' = todo
                /\ IF todo = <<>>
                   THEN rssPc' = "entry" /\ rssEntry' = rssEntry + 1
                   ELSE rssPc' = "submit" /\ rssEntry' = rssEntry
    /\ entryTries' = 0
    /\ UNCHANGED <<feedData, rss_shutdown, rssIdx, rssCur, rssSnap, mainVars,
                   jobsByLink, feedRecorded, passStable, passCount, curJobs,
                   rssFailed, pendingAdds>>
    /\ UNCHANGED clientVars

\* self.client.add_torrent(link.href)
RssSubmit ==
    /\ rssPc = "submit"
    /\ LET href == Head(rssTodo)
           res == add_torrent(href)
       IN  /\ entryTries' = Inc(entryTries)
           /\ IF res = "raise"
              THEN /\ RssExcept("entry")
                   /\ UNCHANGED <<jobsByLink, curJobs, pendingAdds>>
              ELSE /\ rssPc' = "record"
                   /\ UNCHANGED <<rssFailed, rssTodo>>
                   /\ IF res = "submitted"
                      THEN /\ pendingAdds' = pendingAdds \cup {href.id}
                           /\ jobsByLink' = [jobsByLink EXCEPT ![href] = Inc(@)]
                           /\ curJobs' = Inc(curJobs)
                      ELSE UNCHANGED <<jobsByLink, curJobs, pendingAdds>>
    /\ UNCHANGED <<feedData, rss_shutdown, rssIdx, rssCur, rssEntry, rssSnap,
                   mainVars, feedRecorded, passStable, passCount>>
    /\ UNCHANGED clientVars

\* self.history.add(link.href)
RssRecord ==
    /\ rssPc = "record"
    /\ history' = history \cup {Head(rssTodo)}
    /\ feedRecorded' = feedRecorded \cup {Head(rssTodo)}
    /\ rssPc' = "save_open"
    /\ UNCHANGED <<feeds, rssFile, rss_shutdown, rssIdx, rssCur, rssEntry,
                   rssTodo, rssSnap, mainVars, jobsByLink, passStable,
                   passCount, curJobs, entryTries, rssFailed, pendingAdds>>
    /\ UNCHANGED clientVars

\* self._save_state(), first half: open(RSS_STATE_FILE, 'w') truncates the
\* file, and the dict to dump is built from the fields.
RssSaveOpen ==
    /\ rssPc = "save_open"
    /\ rssFile' = EmptyFile
    /\ rssSnap' = [feeds |-> feeds, history |-> history]
    /\ rssPc' = "save_write"
    /\ UNCHANGED <<feeds, history, rss_shutdown, rssIdx, rssCur, rssEntry,
                   rssTodo, mainVars, feedGhost, pendingAdds>>
    /\ UNCHANGED clientVars

\* self._save_state(), second half: json.dump writes and the file is closed.
\* The history was copied when the dict was built; the feed list is the live
\* list, read while dumping, so it is written as it was then or as it is now.
\* Then `break`: the next entry.
RssSaveWrite ==
    /\ rssPc = "save_write"
    /\ \E f \in {rssSnap.feeds, feeds} :
           rssFile' = Written(f, rssSnap.history)
    /\ rssSnap' = NoSnap
    /\ rssTodo' = Tail(rssTodo)
    /\ IF Tail(rssTodo) = <<>>
       THEN rssPc' = "entry" /\ rssEntry' = rssEntry + 1
       ELSE rssPc' = "submit" /\ rssEntry' = rssEntry
    /\ UNCHANGED <<feeds, history, rss_shutdown, rssIdx, rssCur, mainVars,
                   feedGhost, pendingAdds>>
    /\ UNCHANGED clientVars

\* self.shutdown_event.wait(15 * 60): returns when the event is set or the
\* interval has passed.
RssWait ==
    /\ rssPc = "wait"
    /\ rssPc' = "while"
    /\ UNCHANGED <<feedData, rss_shutdown, rssIdx, rssCur, rssEntry, rssTodo,
                   rssSnap, mainVars, feedGhost, pendingAdds>>
    /\ UNCHANGED clientVars

\* ------------------------------------------- the main thread: feed commands

\* TorrentClient.start(): the threads are started and every .fastresume
\* file is given to async_add_torrent.  main() then installs the handlers.
Start ==
    /\ mainPc = "init"
    /\ mainPc' = "prompt"
    /\ rssPc' = "while"
    /\ alertPc' = "while"
    /\ pendingAdds' = DOMAIN resumeFiles
    /\ UNCHANGED <<feedData, rss_shutdown, rssIdx, rssCur, rssEntry, rssTodo,
                   rssSnap, mainSnap, feedGhost, engineVars, shutdown_event,
                   handles, resumeFiles, sessionSaves, alertBatch, sdVars,
                   sdGhost>>
    /\ UNCHANGED alertGhost
    /\ UNCHANGED <<cfgVars, sessionFile>>

add_feedNoTest(url, regex_filter) ==
    /\ mainPc = "prompt"
    /\ feeds' = Append(feeds, [url |-> url, filter |-> regex_filter])
    /\ rssFile' = EmptyFile
    /\ mainSnap' = [feeds |-> feeds', history |-> history]
    /\ mainPc' = "save_write"
    /\ UNCHANGED <<history, rss_shutdown, rssVars, feedGhost, pendingAdds>>
    /\ UNCHANGED clientVars

\* `rss add <url> [regex]`: RSSManager.add_feed up to the open() of
\* _save_state, or to the message of the else branch.
add_feed(url, regex_filter) ==
    /\ mainPc = "prompt"
    /\ IF \A i \in 1..Len(feeds) : feeds[i].url # url
       THEN /\ feeds' = Append(feeds, [url |-> url, filter |-> regex_filter])
            /\ rssFile' = EmptyFile
            /\ mainSnap' = [feeds |-> feeds', history |-> history]
            /\ mainPc' = "save_write"
       ELSE /\ mainPc' = "rejected"
            /\ UNCHANGED <<feeds, rssFile, mainSnap>>
    /\ UNCHANGED <<history, rss_shutdown, rssVars, feedGhost, pendingAdds>>
    /\ UNCHANGED clientVars

\* `rss remove <#>`: RSSManager.remove_feed up to the open() of _save_state,
\* or past the `if` when the index is not one of the list.
remove_feed(index) ==
    /\ mainPc = "prompt"
    /\ IF 0 <= index /\ index < Len(feeds)
       THEN /\ feeds' = Pop(feeds, index)
            /\ rssFile' = EmptyFile
            /\ mainSnap' = [feeds |-> feeds', history |-> history]
            /\ mainPc' = "save_write"
            /\ passStable' = passStable \ {feeds[index + 1]}
       ELSE /\ mainPc' = "rejected"
            /\ UNCHANGED <<feeds, rssFile, mainSnap, passStable>>
    /\ UNCHANGED <<history, rss_shutdown, rssVars, jobsByLink, feedRecorded,
                   passCount, curJobs, entryTries, rssFailed, pendingAdds>>
    /\ UNCHANGED clientVars

\* add_feed or remove_feed returns without having changed anything, and the
\* loop of main() asks for the next command.
FeedReturn ==
    /\ mainPc = "rejected"
    /\ mainPc' = "prompt"
    /\ UNCHANGED <<feedData, rss_shutdown, rssVars, mainSnap, feedGhost,
                   pendingAdds>>
    /\ UNCHANGED clientVars

\* The main thread's _save_state, second half (only this thread changes the
\* feed list, so the list is as it was at the open).
MainSaveWrite ==
    /\ mainPc = "save_write"
    /\ rssFile' = Written(feeds, mainSnap.history)
    /\ mainSnap' = NoSnap
    /\ mainPc' = "prompt"
    /\ UNCHANGED <<feeds, history, rss_shutdown, rssVars, feedGhost,
                   pendingAdds>>
    /\ UNCHANGED clientVars

RssStep ==
    \/ RssWhile
    \/ RssFor
    \/ RssFetch
    \/ RssEntry
    \/ RssSubmit
    \/ RssRecord
    \/ RssSaveOpen
    \/ RssSaveWrite
    \/ RssWait

FeedCommand ==
    \/ \E url \in Urls, f \in Filters : add_feed(url, f)
    \/ \E index \in -1..MaxIndex : remove_feed(index)
    \/ MainSaveWrite
    \/ FeedReturn

\* The feed side of the program: the polling thread and the `rss` commands,
\* before any termination request.
NextFeed == Start \/ RssStep \/ FeedCommand

SpecFeed == Init /\ [][NextFeed]_vars

\* ------------------------------------------------------ the libtorrent session

AddAlert(j, ok) == [kind |-> "add", job |-> j, ok |-> ok, blob |-> 0]
ResumeAlert(j, b) == [kind |-> "resume", job |-> j, ok |-> TRUE, blob |-> b]
\* the content of a resume file that was opened with 'wb' and never written
EmptyBlob == -1

\* where the main thread is once the time.sleep(2) of shutdown has returned
PastWait == {"sd_join", "sd_report", "exited"}

\* The session answers an async_add_torrent with an add_torrent_alert, with
\* or without an error.  A job loaded from resume data has its metadata.
EngineAddResult(j, ok) ==
    /\ j \in pendingAdds
    /\ ok => j \notin torrents
    /\ pendingAdds' = pendingAdds \ {j}
    /\ alertQueue' = Append(alertQueue, AddAlert(j, ok))
    /\ torrents' = IF ok THEN torrents \cup {j} ELSE torrents
    /\ meta' = IF ok /\ j \in ResumedJobs THEN meta \cup {j} ELSE meta
    /\ UNCHANGED <<feedData, rss_shutdown, rssVars, mainVars, feedGhost,
                   pendingResume, shutdown_event, handles, resumeFiles,
                   sessionSaves, alertVars, sdVars, sdGhost>>
    /\ UNCHANGED alertGhost
    /\ UNCHANGED <<cfgVars, sessionFile>>

\* The metadata of a job added from a magnet link arrives from the swarm.
EngineMetadata(j) ==
    /\ j \in torrents \ meta
    /\ meta' = meta \cup {j}
    /\ UNCHANGED <<feedData, rss_shutdown, rssVars, mainVars, feedGhost,
                   pendingAdds, torrents, pendingResume, alertQueue,
                   shutdown_event, handles, resumeFiles, sessionSaves,
                   alertVars, sdVars, sdGhost>>
    /\ UNCHANGED alertGhost
    /\ UNCHANGED <<cfgVars, sessionFile>>

\* The session answers a save_resume_data with a save_resume_data_alert; the
\* blob is numbered by the request it answers.
EngineResumeReady(j) ==
    /\ pendingResume[j] > 0
    /\ LET b == reqCount[j] - pendingResume[j] + 1 IN
       /\ alertQueue' = Append(alertQueue, ResumeAlert(j, b))
       /\ inTime' = IF mainPc \in PastWait THEN inTime
                    ELSE inTime \cup {<<j, b>>}
    /\ pendingResume' = [pendingResume EXCEPT ![j] = @ - 1]
    /\ UNCHANGED <<feedData, rss_shutdown, rssVars, mainVars, feedGhost,
                   pendingAdds, torrents, meta, shutdown_event, handles,
                   resumeFiles, sessionSaves, alertVars, sdVars, reqCount,
                   termRequested, metaAtTerm, completions, handled,
                   writeFailed>>
    /\ UNCHANGED alertGhost
    /\ UNCHANGED <<cfgVars, sessionFile>>

\* Alerts of the kinds the loop has no effect on the registry or the resume
\* files for: a DHT item alert, a torrent_log_alert and an alert of any other
\* type.
OtherKinds == {"dht", "log", "other"}
OtherAlert(k) == [kind |-> k, job |-> "", ok |-> TRUE, blob |-> 0]

\* The session posts an alert of one of the other kinds.
EngineOther(k) ==
    /\ otherCount < MaxOther
    /\ otherCount' = otherCount + 1
    /\ alertQueue' = Append(alertQueue, OtherAlert(k))
    /\ UNCHANGED <<feedData, rss_shutdown, rssVars, mainVars, feedGhost,
                   pendingAdds, torrents, meta, pendingResume, shutdown_event,
                   handles, resumeFiles, sessionSaves, alertVars, sdVars,
                   sdGhost, autoManaged, logged, addsOk, addsFailed, popped,
                   handledSeq, wakesAfterStop>>
    /\ UNCHANGED <<cfgVars, sessionFile>>

EngineStep ==
    \/ \E j \in Jobs, ok \in BOOLEAN : EngineAddResult(j, ok)
    \/ \E j \in Jobs : EngineMetadata(j)
    \/ \E j \in Jobs : EngineResumeReady(j)

EngineOtherStep == \E k \in OtherKinds : EngineOther(k)

\* ------------------------------------------------- the _alert_loop thread

AlertWhileNoStop ==
    /\ alertPc = "while"
    /\ alertPc' = "wait"
    /\ popped' = <<>>
    /\ handledSeq' = <<>>
    /\ UNCHANGED <<feedData, rss_shutdown, rssVars, mainVars, feedGhost,
                   pendingAdds, engineVars, shutdown_event, handles,
                   resumeFiles, sessionSaves, alertBatch, sdVars, sdGhost,
                   autoManaged, logged, addsOk, addsFailed, otherCount>>
    /\ UNCHANGED wakesAfterStop
    /\ UNCHANGED <<cfgVars, sessionFile>>

\* `while not self.shutdown_event.is_set()`
AlertWhile ==
    /\ alertPc = "while"
    /\ alertPc' = IF shutdown_event THEN "done" ELSE "wait"
    /\ popped' = <<>>
    /\ handledSeq' = <<>>
    /\ UNCHANGED <<feedData, rss_shutdown, rssVars, mainVars, feedGhost,
                   pendingAdds, engineVars, shutdown_event, handles,
                   resumeFiles, sessionSaves, alertBatch, sdVars, sdGhost,
                   autoManaged, logged, addsOk, addsFailed, otherCount>>
    /\ UNCHANGED wakesAfterStop
    /\ UNCHANGED <<cfgVars, sessionFile>>

\* wait_for_alert(500) returns an alert and pop_alerts() takes all that are
\* queued.
AlertPop ==
    /\ alertPc = "wait"
    /\ alertQueue # <<>>
    /\ alertBatch' = alertQueue
    /\ alertQueue' = <<>>
    /\ alertPc' = "process"
    /\ popped' = alertQueue
    /\ handledSeq' = <<>>
    /\ wakesAfterStop' = IF shutdown_event THEN Inc(wakesAfterStop)
                         ELSE wakesAfterStop
    /\ UNCHANGED <<feedData, rss_shutdown, rssVars, mainVars, feedGhost,
                   pendingAdds, torrents, meta, pendingResume, shutdown_event,
                   handles, resumeFiles, sessionSaves, sdVars, sdGhost,
                   autoManaged, logged, addsOk, addsFailed, otherCount>>
    /\ UNCHANGED <<cfgVars, sessionFile>>

\* wait_for_alert(500) returns None after 500 ms without an alert.
AlertTimeout ==
    /\ alertPc = "wait"
    /\ alertQueue = <<>>
    /\ alertPc' = "while"
    /\ wakesAfterStop' = IF shutdown_event THEN Inc(wakesAfterStop)
                         ELSE wakesAfterStop
    /\ UNCHANGED <<feedData, rss_shutdown, rssVars, mainVars, feedGhost,
                   pendingAdds, engineVars, shutdown_event, handles,
                   resumeFiles, sessionSaves, alertBatch, sdVars, sdGhost,
                   autoManaged, logged, addsOk, addsFailed, otherCount, popped,
                   handledSeq>>
    /\ UNCHANGED <<cfgVars, sessionFile>>

\* Where the loop goes after the alert at the head of the batch.
AlertNext(rest) == IF rest = <<>> THEN "while" ELSE "process"

\* What an exception thrown by the body of the loop does to the thread:
\* nothing in _alert_loop catches it.
AlertRaise(rest) == "crashed"

\* self.handles after the branch of the if/elif chain that alert `a` takes:
\* only an add_torrent_alert whose error value is 0 appends.
HandlesAfter(hs, a) ==
    IF a.kind = "add" /\ a.ok THEN Append(hs, a.job) ELSE hs

\* The handles given set_flags(auto_managed) after alert `a`.
FlagsAfter(am, a) ==
    IF a.kind = "add" /\ a.ok THEN am \cup {a.job} ELSE am

StoreLosesOthers(files, a) ==
    IF a.kind = "resume" THEN [j \in {a.job} |-> a.blob] ELSE files

\* RESUME_DATA_DIR after alert `a`: a save_resume_data_alert writes
\* <info_hash>.fastresume, opened with 'wb'.
StoreAfter(files, a) ==
    IF a.kind = "resume"
    THEN [j \in DOMAIN files \cup {a.job} |->
            IF j = a.job THEN a.blob ELSE files[j]]
    ELSE files

\* The log after alert `a`: logging.info for an added torrent, logging.debug
\* for a torrent_log_alert.  An add_torrent_alert with an error matches no
\* branch of the chain, and nothing is written for it.
LogAfter(lg, a) ==
    IF a.kind = "add" /\ a.ok THEN [lg EXCEPT !["added"] = @ + 1]
    ELSE IF a.kind = "log" THEN [lg EXCEPT !["debug"] = @ + 1]
    ELSE lg

\* The body of `for alert in self.session.pop_alerts()` for one alert.  The
\* write of the resume file succeeds or throws (OSError): at the open(),
\* which leaves the file as it was, or at the write(), after the open() has
\* truncated it.
AlertHandle ==
    /\ alertPc = "process"
    /\ LET a == Head(alertBatch)
           rest == Tail(alertBatch)
       IN  \/ /\ handles' = HandlesAfter(handles, a)
              /\ autoManaged' = FlagsAfter(autoManaged, a)
              /\ resumeFiles' = StoreAfter(resumeFiles, a)
              /\ logged' = LogAfter(logged, a)
              /\ handled' = IF a.kind = "resume"
                            THEN handled \cup {<<a.job, a.blob>>}
                            ELSE handled
              /\ addsOk' = IF a.kind = "add" /\ a.ok THEN addsOk + 1
                           ELSE addsOk
              /\ addsFailed' = IF a.kind = "add" /\ ~a.ok THEN addsFailed + 1
                               ELSE addsFailed
              /\ handledSeq' = Append(handledSeq, a)
              /\ alertPc' = AlertNext(rest)
              /\ alertBatch' = rest
              /\ UNCHANGED writeFailed
           \/ /\ a.kind = "resume"
              /\ writeFailed' = TRUE
              /\ \/ UNCHANGED resumeFiles
                 \/ resumeFiles' = StoreAfter(resumeFiles,
                                              [a EXCEPT !.blob = EmptyBlob])
              /\ alertPc' = AlertRaise(rest)
              /\ alertBatch' = IF alertPc' = "crashed" THEN <<>> ELSE rest
              /\ handledSeq' = Append(handledSeq, a)
              /\ UNCHANGED <<handles, handled, autoManaged, logged, addsOk,
                             addsFailed>>
    /\ UNCHANGED <<feedData, rss_shutdown, rssVars, mainVars, feedGhost,
                   pendingAdds, engineVars, shutdown_event, sessionSaves,
                   sdVars, reqCount, termRequested, metaAtTerm, completions,
                   inTime, otherCount, popped, wakesAfterStop>>
    /\ UNCHANGED <<cfgVars, sessionFile>>

AlertStep == AlertWhile \/ AlertPop \/ AlertTimeout \/ AlertHandle

\* ------------------------------------------- the main thread: termination

feedSide == <<feeds, history, rssVars, feedGhost, pendingAdds>>

SdPcs == {"sd_rss_set", "sd_rss_join", "sd_rss_save", "sd_rss_write",
          "sd_set_event", "sd_save_session", "sd_request", "sd_sleep",
          "sd_join", "sd_report"}

\* The registered jobs with metadata, noted at the first termination request.
NoteTermination ==
    /\ termRequested' = TRUE
    /\ metaAtTerm' = IF termRequested THEN metaAtTerm
                     ELSE Range(handles) \cap meta

\* `exit`, `quit` or `q` at the prompt: break, and the finally clause of
\* main() calls client.shutdown().
Quit ==
    /\ mainPc = "prompt"
    /\ mainPc' = "sd_rss_set"
    /\ inFinally' = TRUE
    /\ inHandler' = FALSE
    /\ NoteTermination
    /\ UNCHANGED <<feedSide, rssFile, rss_shutdown, mainSnap, engineVars,
                   shutdown_event, handles, resumeFiles, sessionSaves,
                   alertVars, sdIdx, signals, reqCount, completions, inTime,
                   handled, writeFailed>>
    /\ UNCHANGED alertGhost
    /\ UNCHANGED <<cfgVars, sessionFile>>

\* SIGINT or SIGTERM while the main thread waits at the prompt or runs
\* shutdown(): signal_handler calls client.shutdown() on top of what the
\* thread was doing.  What was interrupted is never resumed (SdReport), so
\* only the running shutdown() has a position.  A signal in the middle of
\* another command is not considered.
Signal ==
    /\ mainPc \in {"prompt"} \cup SdPcs
    /\ signals < MaxSignals
    /\ signals' = signals + 1
    /\ mainPc' = "sd_rss_set"
    /\ inHandler' = TRUE
    /\ NoteTermination
    /\ UNCHANGED <<feedSide, rssFile, rss_shutdown, mainSnap, engineVars,
                   shutdown_event, handles, resumeFiles, sessionSaves,
                   alertVars, sdIdx, inFinally, reqCount, completions, inTime,
                   handled, writeFailed>>
    /\ UNCHANGED alertGhost
    /\ UNCHANGED <<cfgVars, sessionFile>>

\* RSSManager.shutdown: self.shutdown_event.set()
SdRssSet ==
    /\ mainPc = "sd_rss_set"
    /\ rss_shutdown' = TRUE
    /\ mainPc' = "sd_rss_join"
    /\ UNCHANGED <<feedSide, rssFile, mainSnap, clientVars>>

\* RSSManager.shutdown: `if self.thread.is_alive(): self.thread.join()`
\* returns once run() has returned.
SdRssJoinNoWait ==
    /\ mainPc = "sd_rss_join"
    /\ mainPc' = "sd_rss_save"
    /\ UNCHANGED <<feedSide, rssFile, rss_shutdown, mainSnap, clientVars>>

SdRssJoin ==
    /\ mainPc = "sd_rss_join"
    /\ rssPc = "done"
    /\ mainPc' = "sd_rss_save"
    /\ UNCHANGED <<feedSide, rssFile, rss_shutdown, mainSnap, clientVars>>

\* RSSManager.shutdown: self._save_state(), the open()
SdRssSaveOpen ==
    /\ mainPc = "sd_rss_save"
    /\ rssFile' = EmptyFile
    /\ mainSnap' = [feeds |-> feeds, history |-> history]
    /\ mainPc' = "sd_rss_write"
    /\ UNCHANGED <<feedSide, rss_shutdown, clientVars>>

\* RSSManager.shutdown: self._save_state(), the dump and the close
SdRssSaveWrite ==
    /\ mainPc = "sd_rss_write"
    /\ rssFile' = Written(feeds, mainSnap.history)
    /\ mainSnap' = NoSnap
    /\ mainPc' = "sd_set_event"
    /\ UNCHANGED <<feedSide, rss_shutdown, clientVars>>

\* self.shutdown_event.set()
SdSetEvent ==
    /\ mainPc = "sd_set_event"
    /\ shutdown_event' = TRUE
    /\ mainPc' = "sd_save_session"
    /\ UNCHANGED <<feedSide, rssFile, rss_shutdown, mainSnap, engineVars,
                   handles, resumeFiles, sessionSaves, alertVars, sdVars,
                   sdGhost>>
    /\ UNCHANGED alertGhost
    /\ UNCHANGED <<cfgVars, sessionFile>>

\* SESSION_STATE_FILE is written with self.session.save_state(); then the
\* iterator of `for h in self.handles`.
SdSaveSession ==
    /\ mainPc = "sd_save_session"
    /\ sessionSaves' = Inc(sessionSaves)
    /\ sdIdx' = 0
    /\ mainPc' = "sd_request"
    /\ UNCHANGED <<feedSide, rssFile, rss_shutdown, mainSnap, engineVars,
                   shutdown_event, handles, resumeFiles, alertVars, inHandler,
                   inFinally, signals, sdGhost>>
    /\ UNCHANGED alertGhost
    /\ sessionFile' = SavedSession(engineSettings, TRUE)
    /\ UNCHANGED cfgVars

\* One step of `for h in self.handles`:
\* `if h.is_valid() and h.has_metadata(): h.save_resume_data()`
SdRequest ==
    /\ mainPc = "sd_request"
    /\ IF sdIdx < Len(handles)
       THEN LET h == handles[sdIdx + 1] IN
            /\ sdIdx' = sdIdx + 1
            /\ mainPc' = "sd_request"
            /\ IF h \in meta
               THEN /\ pendingResume' = [pendingResume EXCEPT ![h] = @ + 1]
                    /\ reqCount' = [reqCount EXCEPT ![h] = @ + 1]
               ELSE UNCHANGED <<pendingResume, reqCount>>
       ELSE /\ mainPc' = "sd_sleep"
            /\ UNCHANGED <<sdIdx, pendingResume, reqCount>>
    /\ UNCHANGED <<feedSide, rssFile, rss_shutdown, mainSnap, torrents, meta,
                   alertQueue, shutdown_event, handles, resumeFiles,
                   sessionSaves, alertVars, inHandler, inFinally, signals,
                   termRequested, metaAtTerm, completions, inTime, handled,
                   writeFailed>>
    /\ UNCHANGED alertGhost
    /\ UNCHANGED <<cfgVars, sessionFile>>

\* time.sleep(2) returns.
SdSleep ==
    /\ mainPc = "sd_sleep"
    /\ mainPc' = "sd_join"
    /\ UNCHANGED <<feedSide, rssFile, rss_shutdown, mainSnap, clientVars>>

\* `if self.alert_thread.is_alive(): self.alert_thread.join()` returns once
\* _alert_loop has ended.
SdJoin ==
    /\ mainPc = "sd_join"
    /\ alertPc \in {"done", "crashed"}
    /\ mainPc' = "sd_report"
    /\ UNCHANGED <<feedSide, rssFile, rss_shutdown, mainSnap, clientVars>>

\* "Shutdown complete." is printed and shutdown() returns: to main()'s
\* finally clause, after which the process ends, or to signal_handler, whose
\* sys.exit(0) raises SystemExit in what the signal interrupted: inside the
\* try block of main() the finally clause then calls shutdown() again, inside
\* the finally clause the process ends.
SdReport ==
    /\ mainPc = "sd_report"
    /\ completions' = Inc(completions)
    /\ IF inHandler /\ ~inFinally
       THEN /\ mainPc' = "sd_rss_set"
            /\ inHandler' = FALSE
            /\ inFinally' = TRUE
       ELSE /\ mainPc' = "exited"
            /\ UNCHANGED <<inHandler, inFinally>>
    /\ UNCHANGED <<feedSide, rssFile, rss_shutdown, mainSnap, engineVars,
                   shutdown_event, handles, resumeFiles, sessionSaves,
                   alertVars, sdIdx, signals, reqCount, termRequested,
                   metaAtTerm, inTime, handled, writeFailed>>
    /\ UNCHANGED alertGhost
    /\ UNCHANGED <<cfgVars, sessionFile>>

ShutdownStep ==
    \/ SdRssSet
    \/ SdRssJoin
    \/ SdRssSaveOpen
    \/ SdRssSaveWrite
    \/ SdSetEvent
    \/ SdSaveSession
    \/ SdRequest
    \/ SdSleep
    \/ SdJoin
    \/ SdReport

\* ------------------------------------------- the main thread: config

\* `config set <key> <value>`
ConfigSet(key, value) ==
    /\ mainPc = "prompt"
    /\ cfgCalls < MaxCalls
    /\ cfgCalls' = cfgCalls + 1
    /\ LET r == config_set(settings, engineSettings, key, value) IN
       /\ settings' = r.settings
       /\ engineSettings' = r.live
       /\ lastCall' = [op |-> "set", key |-> key, raw |-> value,
                       result |-> r.result, wrote |-> r.wrote]
    /\ UNCHANGED <<feedData, rss_shutdown, rssVars, mainVars, feedGhost,
                   pendingAdds, engineVars, shutdown_event, handles,
                   resumeFiles, sessionSaves, alertVars, sdVars, sdGhost,
                   alertGhost, sessionFile, shown>>

\* `config show`
ConfigShow ==
    /\ mainPc = "prompt"
    /\ shown' = [k \in DOMAIN CONFIG_MAP |-> Render(k, engineSettings)]
    /\ lastCall' = [NoCall EXCEPT !.op = "show"]
    /\ UNCHANGED <<feedData, rss_shutdown, rssVars, mainVars, feedGhost,
                   pendingAdds, engineVars, shutdown_event, handles,
                   resumeFiles, sessionSaves, alertVars, sdVars, sdGhost,
                   alertGhost, sessionFile, settings, engineSettings,
                   cfgCalls>>

ConfigCommand ==
    \/ \E key \in ConfigKeys, value \in RawValues : ConfigSet(key, value)
    \/ ConfigShow

\* The whole program.  Its state space is the product of the two slices
\* below, which are the specifications the properties are checked under.
Next ==
    \/ Start
    \/ RssStep
    \/ FeedCommand
    \/ ConfigCommand
    \/ EngineStep
    \/ EngineOtherStep
    \/ AlertStep
    \/ Quit
    \/ Signal
    \/ ShutdownStep

Spec == Init /\ [][Next]_vars

\* The program with the feed list left as the run found it: every command
\* but `rss add` and `rss remove`.
NextShutdown ==
    \/ Start
    \/ RssStep
    \/ EngineStep
    \/ AlertStep
    \/ Quit
    \/ Signal
    \/ ShutdownStep

SpecShutdown == Init /\ [][NextShutdown]_vars

\* A signal that is the first termination request of the run.
FirstSignal == ~termRequested /\ Signal

\* The program that is asked to terminate once, by the command or by one
\* signal, with the scheduling of the three threads: the two daemon threads
\* and the main thread in shutdown() each take their next step when they have
\* one (a fetch returns, a sleep ends, a join returns once its thread has
\* ended).  Nothing is assumed of the session or of the user.
NextStop ==
    \/ Start
    \/ RssStep
    \/ EngineStep
    \/ AlertStep
    \/ Quit
    \/ FirstSignal
    \/ ShutdownStep

SpecStopFair ==
    /\ Init
    /\ [][NextStop]_vars
    /\ WF_vars(RssStep)
    /\ WF_vars(AlertStep)
    /\ WF_vars(ShutdownStep)

\* The same with the alerts of every kind, for a run that starts with the
\* feed whose magnet link adds job A and with the resume file of job R, and
\* that is ended at the prompt.
InitAlerts ==
    InitWith(Written(<< [url |-> "u1", filter |-> ".*"] >>, {}), ResumedJobs,
             AbsentSession)

NextAlerts ==
    \/ Start
    \/ RssStep
    \/ EngineStep
    \/ EngineOtherStep
    \/ AlertStep
    \/ Quit
    \/ ShutdownStep

SpecAlerts == InitAlerts /\ [][NextAlerts]_vars

\* The `config` commands at the prompt of a run that starts from any of the
\* session files, with no feeds and no torrents.
InitConfig == \E sfile \in SessionFiles : InitWith(NoFile, {}, sfile)

NextConfig == Start \/ ConfigCommand

SpecConfig == InitConfig /\ [][NextConfig]_vars

\* ------------------------------------------------------------ the properties

Min(S) == CHOOSE x \in S : \A y \in S : x <= y

\* The href of the first link of `links` that is a transfer source.
FirstTransferHref(links) ==
    links[Min({ i \in 1..Len(links) : IsTransferLink(links[i]) })].href

AfterFeedStop == {"sd_set_event", "sd_save_session", "sd_request", "sd_sleep",
                  "sd_join", "sd_report", "exited"}

\* C1: when shutdown has reported completion (and no resume write threw),
\* every save_resume_data_alert the session posted before the wait of
\* shutdown ended has been handled: its resume file has been written.
C1_ConfirmationsHandled ==
    (mainPc = "exited" /\ ~writeFailed) => inTime \subseteq handled

\* C2: when shutdown is over, one save_resume_data call, and no more, has
\* been made for each job that was registered with metadata when
\* termination was requested; no job got a second call, and no job without
\* metadata got one.
C2_ExactlyNRequests ==
    mainPc = "exited" =>
        /\ \A j \in metaAtTerm : reqCount[j] = 1
        /\ \A j \in Jobs : reqCount[j] <= 1
        /\ \A j \in Jobs : reqCount[j] > 0 => j \in meta

\* C3: the steps of shutdown take effect in order.  Once the alert loop is
\* signalled, the feed loop has been signalled, has exited, and (in the
\* running shutdown) the feed state file holds the final feed list and
\* history; the session state is written only after the alert loop is
\* signalled; resume data is requested only after the session state is
\* written; completion is reported only after the alert thread has ended.
C3_ShutdownOrder ==
    /\ mainPc \in AfterFeedStop =>
           rss_shutdown /\ rssPc = "done" /\ rssFile = Written(feeds, history)
    /\ shutdown_event => rss_shutdown /\ rssPc = "done"
    /\ sessionSaves > 0 => shutdown_event
    /\ (\E j \in Jobs : reqCount[j] > 0) => sessionSaves > 0
    /\ mainPc \in {"sd_request", "sd_sleep", "sd_join", "sd_report"} =>
           sessionSaves > 0
    /\ mainPc \in {"sd_report", "exited"} => alertPc \in {"done", "crashed"}
    /\ completions > 0 =>
           alertPc \in {"done", "crashed"} /\ sessionSaves > 0

\* a shutdown that requested resume data has run to its end
C3_Witness ==
    /\ mainPc = "exited"
    /\ completions > 0
    /\ \E j \in Jobs : reqCount[j] > 0
    /\ feedRecorded # {}

\* C4: the feed loop never hands a link that is in the history to
\* add_torrent, and submits no link as a job twice: a step changes the job
\* count of no link that is in the history, and no count exceeds one.
C4_NoResubmission ==
    /\ [](\A h \in Hrefs : jobsByLink[h] <= 1)
    /\ [](rssPc = "submit" => Head(rssTodo) \notin history)
    /\ [][\A h \in Hrefs : h \in history => jobsByLink'[h] = jobsByLink[h]]_vars

\* a later poll of a feed that carries the submitted magnet link has gone past
\* its entry without a submission
C4_Witness ==
    /\ rssPc = "entry"
    /\ rssCur.url = "u2"
    /\ rssEntry = 2
    /\ entryTries = 0
    /\ curJobs = 0
    /\ jobsByLink[MagA] = 1
    /\ MagA \in history

\* C5: every link the feed loop has added to the history was accepted as a
\* job by add_torrent.
C5_RecordedOnlyIfAccepted ==
    \A h \in feedRecorded : jobsByLink[h] > 0

\* C6: for the entry being handled, whose title matches the pattern, the
\* only link handed to add_torrent is its first transfer link, at most once,
\* and only when that link is not in the history.
C6_FirstLinkWins ==
    /\ entryTries <= 1
    /\ rssPc \in {"submit", "record", "save_open", "save_write"} =>
           LET e == Doc(rssCur.url)[rssEntry] IN
           /\ ReSearch(rssCur.filter, e.title)
           /\ rssTodo = << FirstTransferHref(e.links) >>
           /\ rssPc = "submit" =>
                  entryTries = 0 /\ FirstTransferHref(e.links) \notin history

\* the entry of u1 with three links, two of them transfer links, is done
\* after one submission, with its second transfer link never tried
C6_Witness ==
    /\ rssPc = "entry"
    /\ rssCur.url = "u1"
    /\ rssEntry = 2
    /\ entryTries = 1
    /\ jobsByLink[MagA] = 1
    /\ TorB \notin history

\* C7, as claimed: when the except clause has caught a failure of a feed,
\* the for loop goes on and no job was submitted for that feed in the pass.
C7_FailureContainedNoJob ==
    rssFailed # "no" => (rssPc = "for" /\ curJobs = 0)

\* C7, amended: when the except clause has caught a failure of a feed, the
\* thread is back at the for loop with its iterator where it was, the failing
\* step submitted and recorded nothing, and the rest of the entry is dropped;
\* a feed whose fetch failed has no job in the pass.
C7_FailureContained ==
    /\ [](rssFailed # "no" =>
            /\ rssPc = "for"
            /\ rssTodo = <<>>
            /\ (rssFailed = "fetch" => curJobs = 0))
    /\ [][(rssFailed = "no" /\ rssFailed' # "no") =>
            /\ rssIdx' = rssIdx
            /\ feeds' = feeds
            /\ jobsByLink' = jobsByLink
            /\ history' = history
            /\ rssFile' = rssFile]_vars

\* a feed failed at its second entry, after a job was submitted for its first
C7_Witness ==
    /\ rssFailed = "entry"
    /\ rssPc = "for"
    /\ curJobs = 1

\* C8: when a pass is over, every feed definition that was in the list for
\* the whole pass was taken by the pass exactly once.
C8_StableFeedsProcessedOnce ==
    rssPc = "wait" => \A f \in passStable : passCount[f] = 1

\* C9: whenever neither thread is between a change of the feed list or
\* history and the end of the _save_state that follows it, the feed state
\* file holds the feed list and history that are in memory.
C9_FileMatchesMemory ==
    (mainPc \in {"init", "prompt"} /\ rssPc \notin {"save_open", "save_write"})
        => load_state(rssFile) = [feeds |-> feeds, history |-> history]

\* C10: a resume file write that throws does not end the alert loop: the
\* step in which it throws leaves the thread in its loop, with the rest of
\* the popped alerts still to handle.
C10_WriteFailureKeepsLoop ==
    [][(~writeFailed /\ writeFailed') =>
        (alertPc' \in {"while", "process"} /\ alertBatch' = Tail(alertBatch))]_vars

\* C11: a handled add_torrent_alert without error appends exactly one handle,
\* flagged auto-managed, to self.handles; one with an error is logged and
\* leaves the list as it is; so the length of self.handles is the number of
\* add_torrent_alerts without error handled so far.
C11_AddEventsRegistered ==
    /\ Len(handles) = addsOk
    /\ Range(handles) \subseteq autoManaged
    /\ logged["add_failed"] = addsFailed

\* C18: every alert pop_alerts() returned is handled, in the order the
\* session posted them, before the loop calls wait_for_alert again or tests
\* shutdown_event; a wait that times out is followed by the test and handles
\* nothing.
C18_DrainsAllInOrder ==
    /\ alertPc = "process" => handledSeq \o alertBatch = popped
    /\ alertPc # "process" => handledSeq = popped

\* C20: handling a save_resume_data_alert of job X with blob B makes the resume
\* file of X hold B, whether or not X had a file, and leaves the files of the
\* other jobs and self.handles as they were (the last two also when the write
\* throws); handling a DHT item alert, a torrent_log_alert or an alert of
\* another type changes neither self.handles nor the resume files.
C20_ResumeFrame ==
    [][alertPc = "process" /\ alertBatch' # alertBatch =>
        LET a == Head(alertBatch) IN
        /\ a.kind = "resume" =>
            /\ alertPc' # "crashed" =>
                /\ a.job \in DOMAIN resumeFiles'
                /\ resumeFiles'[a.job] = a.blob
            /\ \A j \in Jobs \ {a.job} :
                /\ j \in DOMAIN resumeFiles' <=> j \in DOMAIN resumeFiles
                /\ j \in DOMAIN resumeFiles =>
                       resumeFiles'[j] = resumeFiles[j]
            /\ handles' = handles
        /\ a.kind \in OtherKinds =>
            /\ handles' = handles
            /\ resumeFiles' = resumeFiles]_vars

\* A file was created for job A and the file of job R overwritten, and an
\* alert of another kind was handled between the two.
C20_Witness ==
    /\ alertPc = "process"
    /\ Len(handledSeq) = 2
    /\ handledSeq[1].kind = "resume"
    /\ handledSeq[2].kind \in OtherKinds
    /\ Head(alertBatch).kind = "resume"
    /\ DOMAIN resumeFiles = Jobs
    /\ handled # {}

\* C14: one termination request stops both threads and ends shutdown(): once
\* RSSManager.shutdown_event is set the feed loop begins no further pass, once
\* TorrentClient.shutdown_event is set wait_for_alert returns at most once
\* more, and after a termination request "Shutdown complete." is eventually
\* printed.
C14_SingleSignalStops ==
    /\ [][rss_shutdown /\ rssPc = "while" => rssPc' # "for"]_vars
    /\ [](wakesAfterStop <= 1)
    /\ termRequested ~> (completions > 0)

\* shutdown() has returned to the signal handler and to main() after one
\* signal, delivered when the feed loop had submitted the magnet link and
\* the alert loop had a wait to come back from.
C14_Witness ==
    /\ mainPc = "exited"
    /\ signals = 1
    /\ completions = 2
    /\ wakesAfterStop = 1
    /\ rssPc = "done"
    /\ alertPc = "done"
    /\ jobsByLink[MagA] > 0

\* What the raw values stand for: the integers written in decimal, and the
\* modes named in the description of the 'encryption' key.
IntMeaning ==
    { [raw |-> <<"5", "0", "0">>, n |-> 500], [raw |-> <<"8">>, n |-> 8],
      [raw |-> <<"-", "1">>, n |-> 0 - 1] }
ModeMeaning ==
    { [raw |-> <<"enable">>, n |-> 1], [raw |-> <<"force">>, n |-> 2],
      [raw |-> <<"disable">>, n |-> 0] }

\* The raw values that are a value of the option `key`.
ValidRaw(key, raw) ==
    IF CONFIG_MAP[key].v_type = "int" THEN \E m \in IntMeaning : m.raw = raw
    ELSE IF key = "encryption" THEN \E m \in ModeMeaning : m.raw = raw
    ELSE TRUE

NumberOf(raw) == (CHOOSE m \in IntMeaning \cup ModeMeaning : m.raw = raw).n

\* The documented defaults are in the settings `st`.
HasDefaults(st) ==
    /\ {"listen_interfaces", "enable_dht", "enable_upnp", "enable_natpmp",
        "alert_mask"} \subseteq DOMAIN st
    /\ st["listen_interfaces"] # <<>>
    /\ st["enable_dht"] /\ st["enable_upnp"] /\ st["enable_natpmp"]
    /\ st["alert_mask"] = "all_categories"

\* C12: a `config set` with a key that is not an option, or with a value that
\* is not a value of the option, is reported as a failure and leaves
\* self.settings and the settings of the session as they were.
C12_FailedSetChangesNothing ==
    [][cfgCalls' # cfgCalls
        /\ (lastCall'.key \notin DOMAIN CONFIG_MAP
            \/ ~ValidRaw(lastCall'.key, lastCall'.raw))
       => /\ lastCall'.result \in {"unknown", "invalid"}
          /\ settings' = settings
          /\ engineSettings' = engineSettings]_vars

\* C13: when a successful `config set` has returned, SESSION_STATE_FILE has
\* been rewritten and holds the settings of the session (as the feed file is
\* rewritten by add_feed, remove_feed and a history addition).
C13_SetRewritesSessionFile ==
    lastCall.op = "set" /\ lastCall.result = "set" =>
        /\ sessionFile.state = "ok"
        /\ sessionFile.settings = engineSettings

\* C15: _load_state_and_config returns for every file, and when session.dat
\* is absent or cannot be read, self.settings and the settings applied to
\* the session hold the defaults: a non-empty listen address, DHT, UPnP and
\* NAT-PMP enabled, the alert mask of all categories.
C15_LoadFallsBackToDefaults ==
    sessionFile.state # "ok" \/ ~sessionFile.loads =>
        /\ HasDefaults(settings)
        /\ HasDefaults(engineSettings)

\* The run has reached the prompt from a saved state that load_state could
\* not read and that had DHT disabled and an empty listen address.
C15_Witness ==
    /\ mainPc = "prompt"
    /\ sessionFile.state = "ok"
    /\ ~sessionFile.loads
    /\ ~sessionFile.settings["enable_dht"]
    /\ settings["enable_dht"]
    /\ settings["listen_interfaces"] = DefaultSettings["listen_interfaces"]

\* C16: after `config set` of an option with a value of the option, the
\* engine setting of the option is the value in engine units: the number
\* times 1024 for dl_limit_kb and ul_limit_kb (512000 for "500"), times 64
\* for cache_size_mb, the number of the mode for encryption, the number or
\* the string itself for the other options.
C16_UnitRules ==
    lastCall.op = "set" /\ lastCall.key \in DOMAIN CONFIG_MAP
        /\ ValidRaw(lastCall.key, lastCall.raw) =>
    LET key == lastCall.key
        lt_key == CONFIG_MAP[key].lt_key
        expected ==
            IF EndsWithKb(key) THEN NumberOf(lastCall.raw) * 1024
            ELSE IF key = "cache_size_mb" THEN NumberOf(lastCall.raw) * 64
            ELSE IF key \in {"encryption", "connections_limit"}
                 THEN NumberOf(lastCall.raw)
            ELSE lastCall.raw
    IN  /\ lastCall.result = "set"
        /\ lt_key \in DOMAIN engineSettings
        /\ engineSettings[lt_key] = expected
        /\ settings[lt_key] = expected
        /\ key = "dl_limit_kb" /\ lastCall.raw = <<"5", "0", "0">> =>
               engineSettings["download_rate_limit"] = 512000

\* `config set dl_limit_kb 500` has stored 512000.
C16_Witness ==
    /\ lastCall.key = "dl_limit_kb"
    /\ lastCall.raw = <<"5", "0", "0">>
    /\ "download_rate_limit" \in DOMAIN engineSettings
    /\ engineSettings["download_rate_limit"] = 512000

\* C17: what `config show` displays for an option that holds the translation
\* of a valid value translates back to the same engine value, and for a
\* download limit of 512000 it displays "500".
C17_RenderRoundTrip ==
    lastCall.op = "show" =>
        /\ \A key \in DOMAIN CONFIG_MAP, v \in RawValues :
            LET lt_key == CONFIG_MAP[key].lt_key
                t == Translate(key, v)
                back == Translate(key, shown[key])
            IN  ValidRaw(key, v) /\ lt_key \in DOMAIN engineSettings
                    /\ engineSettings[lt_key] = t.val
                => back.ok /\ back.val = t.val
        /\ "download_rate_limit" \in DOMAIN engineSettings
            /\ engineSettings["download_rate_limit"] = 512000
           => shown["dl_limit_kb"] = <<"5", "0", "0">>

\* C19: after a successful `config set`, every name it wrote to self.settings
\* has the same value in the settings of the session.
C19_NothingStaged ==
    lastCall.op = "set" /\ lastCall.result = "set" =>
        \A n \in lastCall.wrote :
            /\ n \in DOMAIN engineSettings
            /\ engineSettings[n] = settings[n]

\* C21: shutdown() runs at most once in a process, however termination is
\* asked for: SESSION_STATE_FILE is written once, "Shutdown complete." is
\* printed once, and once a shutdown() has joined the alert thread and
\* returned, the main thread is in no further shutdown().
C21_ShutdownRunsOnce ==
    /\ sessionSaves <= 1
    /\ completions <= 1
    /\ completions > 0 => mainPc \notin SdPcs

\* C22: the URLs of self.feeds stay pairwise distinct through every add_feed
\* and remove_feed; a command changes the list only by appending a feed whose
\* URL was not in it or by removing one of its elements; and an add_feed with
\* a URL of the list, or a remove_feed with an index outside 0..len-1, leaves
\* the list, the history and the feed state file as they were.
C22_FeedUrlsDistinct ==
    /\ [](\A i, j \in 1..Len(feeds) : feeds[i].url = feeds[j].url => i = j)
    /\ [][mainPc = "prompt" /\ mainPc' \in {"save_write", "rejected"} =>
            \/ /\ mainPc' = "rejected"
               /\ UNCHANGED <<feeds, history, rssFile>>
            \/ /\ mainPc' = "save_write"
               /\ \E f \in FeedDefs :
                    /\ feeds' = Append(feeds, f)
                    /\ \A i \in 1..Len(feeds) : feeds[i].url # f.url
            \/ /\ mainPc' = "save_write"
               /\ \E k \in 1..Len(feeds) : feeds' = Pop(feeds, k - 1)]_vars

\* A command was refused when the list held both URLs, after a feed had
\* been added to the one the run started with.
C22_Witness ==
    /\ mainPc = "rejected"
    /\ Len(feeds) = 2
    /\ feeds[1].url # feeds[2].url
    /\ rssFile.state = "ok"
    /\ Len(rssFile.feeds) = 2

====
